---- MODULE Spec2Model ----
(***************************************************************************)
(* A model of json-rpc-api-endpoint (src/src/index.js): the POST route     *)
(* handler of JsonRPCEndpoint, addMethod, reply, serializeError and the    *)
(* BigInt/Date codec.                                                      *)
(*                                                                         *)
(* JavaScript values are records tagged by the field t.  Every kind keeps  *)
(* its payload under a field name of its own, so two values of different   *)
(* kinds never have their payloads compared.                               *)
(*                                                                         *)
(* A JavaScript string is a sequence of chunks.  A chunk is either one     *)
(* character (the digits, "n", "-", ":", ".", "T", "Z", "+") or a run of   *)
(* text that holds a letter or a space and is never split: such a run can  *)
(* never be part of a match of the codec's anchored patterns, so the       *)
(* patterns treat it as one non-matching character.  Template literals    *)
(* are concatenations of chunk sequences.                                  *)
(***************************************************************************)
EXTENDS Integers, Sequences, FiniteSets, TLC

VARIABLES methods, body, pc, invoked, outcome, sent, escaped, registered, alive,
          cin, cenc, cdec, cagain, cpc

vars == <<methods, body, pc, invoked, outcome, sent, escaped, registered, alive,
          cin, cenc, cdec, cagain, cpc>>
epVars == <<methods, body, pc, invoked, outcome, sent, escaped, registered, alive>>
codecVars == <<cin, cenc, cdec, cagain, cpc>>

----------------------------------------------------------------------------
(* JavaScript values *)

Undef == [t |-> "undefined"]
Null == [t |-> "null"]
Bool(b) == [t |-> "boolean", b |-> b]
Num(n) == [t |-> "number", n |-> n]
Str(s) == [t |-> "string", s |-> s]
\* a BigInt is arbitrary-precision: a sign and the decimal digits of its
\* magnitude, without leading zeros (<<"0">> for zero, which has no sign)
Big(neg, mag) == [t |-> "bigint", neg |-> neg, mag |-> mag]
\* a valid Date: its time value as Day(t) and msFromTime-within-day (ECMAScript
\* Day and TimeWithinDay), days counted from 1970-01-01
DateOf(day, ms) == [t |-> "date", day |-> day, ms |-> ms]
Arr(es) == [t |-> "array", es |-> es]
Obj(kv) == [t |-> "object", kv |-> kv]
\* new Error(...) with its properties, own and assigned, as key/value pairs
Err(kv) == [t |-> "error", ekv |-> kv]
\* new NestedError(message, nested): an Error that keeps `nested`
NestedErr(kv) == [t |-> "nestederror", nkv |-> kv]
Fn(name) == [t |-> "function", f |-> name]
\* the Express request object handed to handlers: an object graph with cycles
\* (req.res.req === req)
ReqArtifact == [t |-> "cyclic"]

\* the own properties of a value, in insertion order
Props(v) ==
  CASE v.t = "object" -> v.kv
    [] v.t = "error" -> v.ekv
    [] v.t = "nestederror" -> v.nkv
    [] OTHER -> <<>>

HasKey(kv, k) == \E i \in 1..Len(kv) : kv[i][1] = k

Lookup(kv, k) == kv[CHOOSE i \in 1..Len(kv) : kv[i][1] = k][2]

\* result[k] = v on an ordinary object: an existing key keeps its place
SetKey(kv, k, v) ==
  IF HasKey(kv, k)
  THEN [i \in 1..Len(kv) |-> IF kv[i][1] = k THEN <<k, v>> ELSE kv[i]]
  ELSE Append(kv, <<k, v>>)

\* v[k] for v neither null nor undefined.  Error.prototype.message is the
\* empty string, so an error built without a message still has one.
Get(v, k) ==
  IF HasKey(Props(v), k) THEN Lookup(Props(v), k)
  ELSE IF v.t \in {"error", "nestederror"} /\ k = "message" THEN Str(<<>>)
  ELSE Undef

\* v is null or undefined: v.k throws a TypeError
Nullish(v) == v.t \in {"undefined", "null"}

\* ToBoolean
Truthy(v) ==
  CASE v.t \in {"undefined", "null"} -> FALSE
    [] v.t = "boolean" -> v.b
    [] v.t = "number" -> v.n # 0
    [] v.t = "string" -> v.s # <<>>
    [] v.t = "bigint" -> v.mag # <<"0">>
    [] OTHER -> TRUE

\* a || b
Or(a, b) == IF Truthy(a) THEN a ELSE b

----------------------------------------------------------------------------
(* Decimal digits *)

Digits == {"0", "1", "2", "3", "4", "5", "6", "7", "8", "9"}

DigitChar(d) == <<"0", "1", "2", "3", "4", "5", "6", "7", "8", "9">>[d + 1]

DigitVal(c) == CHOOSE d \in 0..9 : DigitChar(d) = c

AllDigits(s) == \A i \in 1..Len(s) : s[i] \in Digits

RECURSIVE NatDigits(_)
\* the decimal digits of a natural number, no leading zero
NatDigits(n) == IF n < 10 THEN <<DigitChar(n)>> ELSE Append(NatDigits(n \div 10), DigitChar(n % 10))

RECURSIVE DigitsNat(_)
\* the natural number a digit string denotes (leading zeros allowed)
DigitsNat(s) == IF s = <<>> THEN 0 ELSE 10 * DigitsNat(SubSeq(s, 1, Len(s) - 1)) + DigitVal(s[Len(s)])

RECURSIVE PadDigits(_, _)
\* n in decimal, left-padded with zeros to at least w digits
PadDigits(n, w) == IF Len(NatDigits(n)) >= w THEN NatDigits(n) ELSE <<"0">> \o PadDigits(n, w - 1)

RECURSIVE StripZeros(_)
\* a digit string without its leading zeros, keeping one digit
StripZeros(s) == IF Len(s) > 1 /\ s[1] = "0" THEN StripZeros(Tail(s)) ELSE s

\* BigInt.prototype.toString()
BigIntToString(v) == IF v.neg THEN <<"-">> \o v.mag ELSE v.mag

\* BigIntOfDigits through a double: the first 17 significant digits survive
BigIntOfDigitsLossy(s) ==
  LET z == StripZeros(s)
  IN  Big(FALSE, [i \in 1..Len(z) |-> IF i <= 17 THEN z[i] ELSE "0"])

\* BigInt(s) for a string of decimal digits
BigIntOfDigits(s) == Big(FALSE, StripZeros(s))

----------------------------------------------------------------------------
(* Dates: Date.prototype.toISOString and new Date(isoString) *)

\* the day number of the civil date y-m-d (proleptic Gregorian), m in 1..12;
\* d may exceed the month's length and then runs into the next month
DaysFromCivil(y, m, d) ==
  LET yy == IF m <= 2 THEN y - 1 ELSE y
      era == yy \div 400
      yoe == yy - era * 400
      mp == IF m > 2 THEN m - 3 ELSE m + 9
      doy == (153 * mp + 2) \div 5 + d - 1
      doe == yoe * 365 + yoe \div 4 - yoe \div 100 + doy
  IN  era * 146097 + doe - 719468

\* the civil date <<y, m, d>> of a day number
CivilFromDays(z0) ==
  LET z == z0 + 719468
      era == z \div 146097
      doe == z - era * 146097
      yoe == (doe - doe \div 1460 + doe \div 36524 - doe \div 146096) \div 365
      doy == doe - (365 * yoe + yoe \div 4 - yoe \div 100)
      mp == (5 * doy + 2) \div 153
      d == doy - (153 * mp + 2) \div 5 + 1
      m == IF mp < 10 THEN mp + 3 ELSE mp - 9
      y == yoe + era * 400 + (IF m <= 2 THEN 1 ELSE 0)
  IN  <<y, m, d>>

\* Date.prototype.toISOString() of a valid Date: YYYY-MM-DDTHH:mm:ss.sssZ, the
\* year in the expanded form +YYYYYY / -YYYYYY outside 0..9999
ToISOString(v) ==
  LET c == CivilFromDays(v.day)
      year == IF c[1] >= 0 /\ c[1] <= 9999 THEN PadDigits(c[1], 4)
              ELSE IF c[1] < 0 THEN <<"-">> \o PadDigits(0 - c[1], 6)
              ELSE <<"+">> \o PadDigits(c[1], 6)
      h == v.ms \div 3600000
      mi == (v.ms \div 60000) % 60
      sec == (v.ms \div 1000) % 60
      milli == v.ms % 1000
  IN  year \o <<"-">> \o PadDigits(c[2], 2) \o <<"-">> \o PadDigits(c[3], 2) \o <<"T">>
        \o PadDigits(h, 2) \o <<":">> \o PadDigits(mi, 2) \o <<":">> \o PadDigits(sec, 2)
        \o <<".">> \o PadDigits(milli, 3) \o <<"Z">>

\* /^\d+n?$/.test(s)
BigIntPattern(s) ==
  /\ s # <<>>
  /\ LET core == IF s[Len(s)] = "n" THEN SubSeq(s, 1, Len(s) - 1) ELSE s
     IN  core # <<>> /\ AllDigits(core)

\* s.replace(/n$/, "")
StripN(s) == IF s # <<>> /\ s[Len(s)] = "n" THEN SubSeq(s, 1, Len(s) - 1) ELSE s

\* /^\d{4}-\d{2}-\d{2}T\d{2}:\d{2}:\d{2}(\.\d+)?Z$/.test(s)
IsoPattern(s) ==
  /\ Len(s) >= 20
  /\ AllDigits(SubSeq(s, 1, 4)) /\ s[5] = "-"
  /\ AllDigits(SubSeq(s, 6, 7)) /\ s[8] = "-"
  /\ AllDigits(SubSeq(s, 9, 10)) /\ s[11] = "T"
  /\ AllDigits(SubSeq(s, 12, 13)) /\ s[14] = ":"
  /\ AllDigits(SubSeq(s, 15, 16)) /\ s[17] = ":"
  /\ AllDigits(SubSeq(s, 18, 19))
  /\ s[Len(s)] = "Z"
  /\ \/ Len(s) = 20
     \/ Len(s) >= 22 /\ s[20] = "." /\ AllDigits(SubSeq(s, 21, Len(s) - 1))

\* the fields <<year, month, day, hour, minute, second, millisecond>> of a
\* string that matches IsoPattern; the fraction counts to its third digit
IsoFields(s) ==
  LET frac == IF Len(s) = 20 THEN <<>> ELSE SubSeq(s, 21, Len(s) - 1)
      f3 == SubSeq(frac \o <<"0", "0", "0">>, 1, 3)
  IN  <<DigitsNat(SubSeq(s, 1, 4)), DigitsNat(SubSeq(s, 6, 7)), DigitsNat(SubSeq(s, 9, 10)),
        DigitsNat(SubSeq(s, 12, 13)), DigitsNat(SubSeq(s, 15, 16)), DigitsNat(SubSeq(s, 18, 19)),
        DigitsNat(f3)>>

\* !isNaN(new Date(s).getTime()) for s matching IsoPattern (V8's ISO parser):
\* month 1..12, day 1..31 whatever the month, time up to 23:59:59 or 24:00:00.000
IsoValid(s) ==
  LET f == IsoFields(s)
  IN  /\ f[2] \in 1..12
      /\ f[3] \in 1..31
      /\ \/ f[4] <= 23 /\ f[5] <= 59 /\ f[6] <= 59
         \/ f[4] = 24 /\ f[5] = 0 /\ f[6] = 0 /\ f[7] = 0

\* new Date(s) for s matching IsoPattern and valid: a day past the end of the
\* month, and hour 24, run into the following day
ParseIso(s) ==
  LET f == IsoFields(s)
      t == f[4] * 3600000 + f[5] * 60000 + f[6] * 1000 + f[7]
  IN  DateOf(DaysFromCivil(f[1], f[2], f[3]) + t \div 86400000, t % 86400000)

----------------------------------------------------------------------------
(* The codec *)

\* Object.entries(v): the enumerable own properties; an Error's message and
\* stack are not enumerable
Entries(v) ==
  IF v.t \in {"error", "nestederror"}
  THEN SelectSeq(Props(v), LAMBDA e : e[1] \notin {"message", "stack"})
  ELSE Props(v)

RECURSIVE HasCycle(_)
\* the value graph reaches itself: a structural recursion over it never ends
\* and V8 raises RangeError (Maximum call stack size exceeded)
HasCycle(v) ==
  CASE v.t = "cyclic" -> TRUE
    [] v.t = "array" -> \E i \in 1..Len(v.es) : HasCycle(v.es[i])
    [] v.t \in {"object", "error", "nestederror"} ->
         \E i \in 1..Len(Entries(v)) : HasCycle(Entries(v)[i][2])
    [] OTHER -> FALSE

RECURSIVE serializeBigIntsAndDates(_)
\* JsonRPCEndpoint.serializeBigIntsAndDates, for a value without cycles
serializeBigIntsAndDates(value) ==
  CASE value.t = "bigint" -> Str(BigIntToString(value))
    [] value.t = "array" ->
         Arr([i \in 1..Len(value.es) |-> serializeBigIntsAndDates(value.es[i])])
    [] value.t = "date" -> Str(ToISOString(value))
    [] value.t \in {"object", "error", "nestederror"} ->
         Obj([i \in 1..Len(Entries(value)) |->
               <<Entries(value)[i][1], serializeBigIntsAndDates(Entries(value)[i][2])>>])
    [] OTHER -> value

RECURSIVE deserializeBigIntsAndDates(_)
\* JsonRPCEndpoint.deserializeBigIntsAndDates, for a value without cycles
deserializeBigIntsAndDates(value) ==
  CASE value.t = "string" /\ BigIntPattern(value.s) -> BigIntOfDigits(StripN(value.s))
    [] value.t = "string" /\ ~BigIntPattern(value.s) /\ IsoPattern(value.s) /\ IsoValid(value.s) ->
         ParseIso(value.s)
    [] value.t = "array" ->
         Arr([i \in 1..Len(value.es) |-> deserializeBigIntsAndDates(value.es[i])])
    [] value.t \in {"object", "error", "nestederror", "date"} ->
         Obj([i \in 1..Len(Entries(value)) |->
               <<Entries(value)[i][1], deserializeBigIntsAndDates(Entries(value)[i][2])>>])
    [] OTHER -> value

----------------------------------------------------------------------------
(* serializeError *)

defaultProperties ==
  <<"stackTraceLimit", "cause", "code", "message", "stack", "address",
    "dest", "errno", "info", "path", "port", "syscall", "opensslErrorStack",
    "function", "library", "reason">>

\* properties.filter(prop => !['address', 'path'].includes(prop))
includeProperties(sanitize, properties) ==
  IF sanitize THEN SelectSeq(properties, LAMBDA prop : prop \notin {"address", "path"})
  ELSE properties

RECURSIVE CopyProperties(_, _, _)
\* includeProperties.forEach(prop => { if (error?.[prop] !== undefined) result[prop] = error[prop] })
CopyProperties(error, props, result) ==
  IF props = <<>> THEN result
  ELSE CopyProperties(error, Tail(props),
         IF Get(error, Head(props)) # Undef
         THEN SetKey(result, Head(props), Get(error, Head(props)))
         ELSE result)

RECURSIVE ObjectAssign(_, _)
\* Object.assign(result, error): every enumerable own property of the source
ObjectAssign(result, entries) ==
  IF entries = <<>> THEN result
  ELSE ObjectAssign(SetKey(result, Head(entries)[1], Head(entries)[2]), Tail(entries))

RECURSIVE serializeError(_, _)
\* serializeError(error, sanitize), properties = defaultProperties.  Failure
\* values are errors, chained errors, plain objects, dates, functions and
\* primitives; a thrown array is outside the model.
serializeError(error, sanitize) ==
  IF Nullish(error) THEN error
  ELSE LET result == CopyProperties(error, includeProperties(sanitize, defaultProperties), <<>>)
       IN  CASE error.t = "nestederror" ->
                  LET typed == SetKey(result, "type", Str(<<"NestedError">>))
                  IN  IF Truthy(Get(error, "nested"))
                      THEN Obj(SetKey(typed, "nested", serializeError(Get(error, "nested"), sanitize)))
                      ELSE Obj(typed)
             [] error.t = "error" -> Obj(SetKey(result, "type", Str(<<"Error">>)))
             [] error.t \in {"object", "date", "function"} ->
                  Obj(ObjectAssign(SetKey(result, "type", Str(<<"Object">>)), Entries(error)))
             [] error.t \in {"string", "number", "boolean", "bigint"} ->
                  Obj(SetKey(SetKey(result, "type", Str(<<"Default">>)), "instance", error))

----------------------------------------------------------------------------
(* res.json: JSON.stringify of the response, as the tree the caller parses *)

RECURSIVE JsonThrows(_)
\* JSON.stringify(v) throws a TypeError: a BigInt or a cycle is reached
JsonThrows(v) ==
  CASE v.t \in {"bigint", "cyclic"} -> TRUE
    [] v.t = "array" -> \E i \in 1..Len(v.es) : JsonThrows(v.es[i])
    [] v.t \in {"object", "error", "nestederror"} ->
         \E i \in 1..Len(Entries(v)) : JsonThrows(Entries(v)[i][2])
    [] OTHER -> FALSE

\* JSON.stringify leaves the value out: undefined or a function
JsonOmits(v) == v.t \in {"undefined", "function"}

RECURSIVE ToJSON(_)
\* the JSON text of v, read back: a property holding undefined is dropped, an
\* array element holding undefined is null, a Date is its toJSON() string, an
\* Error keeps its enumerable properties only
ToJSON(v) ==
  CASE v.t = "array" ->
         Arr([i \in 1..Len(v.es) |-> IF JsonOmits(v.es[i]) THEN Null ELSE ToJSON(v.es[i])])
    [] v.t = "date" -> Str(ToISOString(v))
    [] v.t \in {"object", "error", "nestederror"} ->
         LET kept == SelectSeq(Entries(v), LAMBDA e : ~JsonOmits(e[2]))
         IN  Obj([i \in 1..Len(kept) |-> <<kept[i][1], ToJSON(kept[i][2])>>])
    [] OTHER -> v

----------------------------------------------------------------------------
(* The endpoint *)

MaxReq == 2

Reqs == 1..MaxReq

\* what a step of the core leaves behind: the envelopes handed to res.json and
\* sent, and the exceptions that left the core (thrown out of the route
\* handler, or the rejection of a promise nobody handles)
Effect(wires, leaks) == [sent |-> wires, escaped |-> leaks]

\* JsonRPCEndpoint.reply: the response object handed to res.json
replyResponse(id, result, error) ==
  LET response == <<<<"jsonrpc", Str(<<"2", ".", "0">>)>>,
                    <<"id", IF id = Undef THEN Null ELSE id>>>>
  IN  IF Truthy(error) THEN Obj(Append(response, <<"error", error>>))
      ELSE Obj(Append(response, <<"result", result>>))

\* reply throws: res.json could not stringify the response, nothing is sent
replyThrows(id, result, error) == JsonThrows(replyResponse(id, result, error))

\* what reply sends
reply(id, result, error) == ToJSON(replyResponse(id, result, error))

ErrorValue(message) ==
  Err(<<<<"message", Str(<<message>>)>>, <<"stack", Str(<<message, " at <anonymous>">>)>>>>)

\* the rejection handler (.catch) of the route
catchCallback(err, id) ==
  IF Nullish(err) THEN Effect(<<>>, <<"unhandledRejection">>)
  ELSE LET error == Obj(<<<<"code", Or(Get(err, "code"), Num(0 - 32603))>>,
                          <<"message", Or(Get(err, "message"), Str(<<"Internal error">>))>>,
                          <<"error", serializeError(err, TRUE)>>>>)
       IN  IF replyThrows(id, Undef, error) THEN Effect(<<>>, <<"unhandledRejection">>)
           ELSE Effect(<<reply(id, Undef, error)>>, <<>>)

\* thenCallback that replies with the handler's value as it is
thenCallbackRaw(result, id) ==
  IF replyThrows(id, result, Undef)
  THEN catchCallback(ErrorValue("TypeError: Do not know how to serialize a BigInt"), id)
  ELSE Effect(<<reply(id, result, Undef)>>, <<>>)

\* the fulfilment handler (.then) of the route, chained to .catch
thenCallback(result, id) ==
  IF HasCycle(result)
  THEN catchCallback(ErrorValue("RangeError: Maximum call stack size exceeded"), id)
  ELSE LET safeResult == serializeBigIntsAndDates(result)
       IN  IF replyThrows(id, safeResult, Undef)
           THEN catchCallback(ErrorValue("TypeError: Converting circular structure to JSON"), id)
           ELSE Effect(<<reply(id, safeResult, Undef)>>, <<>>)

\* the catch block around the invocation
catchBlock(err, id) ==
  IF Nullish(err) THEN Effect(<<>>, <<"uncaughtException">>)
  ELSE LET error == Obj(<<<<"code", Num(0 - 32603)>>,
                          <<"message", Or(Get(err, "message"), Str(<<"Internal error">>))>>,
                          <<"error", serializeError(err, TRUE)>>>>)
       IN  IF replyThrows(id, Undef, error) THEN Effect(<<>>, <<"uncaughtException">>)
           ELSE Effect(<<reply(id, Undef, error)>>, <<>>)

\* whether the process is still running after a step that left `leaks`
\* behind.  An exception thrown out of the route handler is caught by the
\* router; a rejection nobody handles ends the process on Node 15 and later
\* and is only reported on Node 14 (package.json: node >= 14).
survives(leaks) ==
  IF \E i \in 1..Len(leaks) : leaks[i] = "unhandledRejection" THEN {TRUE, FALSE} ELSE {TRUE}

\* names registered with addMethod
UserFns == {"h1", "h2"}

\* this.#methods[method]: #methods is an ordinary object, so a name that was
\* not registered is looked up in Object.prototype
lookupMethod(registry, method) ==
  IF method \in DOMAIN registry THEN registry[method]
  ELSE CASE method = <<"toString">> -> Fn("Object.prototype.toString")
         [] method = <<"hasOwnProperty">> -> Fn("Object.prototype.hasOwnProperty")
         [] method = <<"constructor">> -> Fn("Object")
         [] method = <<"__proto__">> -> Obj(<<>>)
         [] OTHER -> Undef

\* handler(req, context, params): the completion of the call.  What a
\* registered handler does is its own business: `completion` is that input.
\* A built-in is called with `this` undefined.
invoke(handler, completion) ==
  CASE handler.t = "function" /\ handler.f \in UserFns -> completion
    [] handler.t = "function" /\ handler.f = "Object.prototype.toString" ->
         [mode |-> "return", v |-> Str(<<"[object Undefined]">>)]
    [] handler.t = "function" /\ handler.f = "Object" ->
         [mode |-> "return", v |-> ReqArtifact]
    [] handler.t = "function" /\ handler.f = "Object.prototype.hasOwnProperty" ->
         [mode |-> "throw", v |-> ErrorValue("TypeError: Cannot convert undefined or null to object")]
    [] OTHER -> [mode |-> "throw", v |-> ErrorValue("TypeError: handler is not a function")]

NoCall == [fn |-> Undef, params |-> Undef, context |-> Undef]
NoOutcome == [mode |-> "none", v |-> Undef]

\* the application context given to the constructor
Context == Obj(<<<<"db", Str(<<"main db">>)>>>>)

EndpointInit ==
  /\ methods = [n \in {} |-> Undef]
  /\ body = [r \in Reqs |-> Undef]
  /\ pc = [r \in Reqs |-> "new"]
  /\ invoked = [r \in Reqs |-> NoCall]
  /\ outcome = [r \in Reqs |-> NoOutcome]
  /\ sent = [r \in Reqs |-> <<>>]
  /\ escaped = [r \in Reqs |-> <<>>]
  /\ registered = [n \in {} |-> Undef]
  /\ alive = TRUE

CodecIdle ==
  /\ cin = Undef
  /\ cenc = Undef
  /\ cdec = Undef
  /\ cagain = Undef
  /\ cpc = "off"

\* addMethod that keeps the handler a name was first registered with
addMethodKeepFirst(name, handler) ==
  /\ alive
  /\ methods' = [n \in DOMAIN methods \cup {name} |-> IF n \in DOMAIN methods THEN methods[n] ELSE handler]
  /\ registered' = [n \in DOMAIN registered \cup {name} |-> IF n = name THEN handler ELSE registered[n]]
  /\ UNCHANGED <<body, pc, invoked, outcome, sent, escaped, alive>>
  /\ UNCHANGED codecVars

\* addMethod(name, handler).  `registered` is the history of the calls: for
\* every name, the handler of the latest call that named it.
addMethod(name, handler) ==
  /\ alive
  /\ methods' = [n \in DOMAIN methods \cup {name} |-> IF n = name THEN handler ELSE methods[n]]
  /\ registered' = [n \in DOMAIN registered \cup {name} |-> IF n = name THEN handler ELSE registered[n]]
  /\ UNCHANGED <<body, pc, invoked, outcome, sent, escaped, alive>>
  /\ UNCHANGED codecVars

\* the fields the route handler takes from req.body || {}
Field(b, k) == IF Truthy(b) THEN Get(b, k) ELSE Undef

\* invalidMessage with the two checks in the other order
invalidMessageMethodFirst(jsonrpc, method) ==
  IF method.t # "string" THEN <<"Invalid Request: 'method' must be a string.">>
  ELSE IF jsonrpc # Str(<<"2", ".", "0">>) THEN <<"Invalid Request: 'jsonrpc' must be '2.0'.">>
  ELSE <<>>

\* invalidMessage without the check of the method's type
invalidMessageNoTypeCheck(jsonrpc, method) ==
  IF jsonrpc # Str(<<"2", ".", "0">>) THEN <<"Invalid Request: 'jsonrpc' must be '2.0'.">>
  ELSE <<>>

\* the two checks of the envelope, in the order of the code: the message of
\* the first that fails, <<>> when both pass
invalidMessage(jsonrpc, method) ==
  IF jsonrpc # Str(<<"2", ".", "0">>) THEN <<"Invalid Request: 'jsonrpc' must be '2.0'.">>
  ELSE IF method.t # "string" THEN <<"Invalid Request: 'method' must be a string.">>
  ELSE <<>>

\* the property key object[v] uses: a string is its own key, anything else is
\* keyed by its textual form (of arrays, the one-string arrays are modelled)
PropertyKey(v) ==
  CASE v.t = "string" -> v.s
    [] v.t = "number" -> IF v.n < 0 THEN <<"-">> \o NatDigits(0 - v.n) ELSE NatDigits(v.n)
    [] v.t \in {"undefined", "null"} -> <<v.t>>
    [] v.t = "boolean" -> IF v.b THEN <<"true">> ELSE <<"false">>
    [] v.t = "array" /\ Len(v.es) = 1 /\ v.es[1].t = "string" -> v.es[1].s
    [] v.t = "object" -> <<"[object Object]">>

\* closureId with `id` kept in one place for all requests: the id of the
\* request that arrived last
closureIdShared(r) ==
  Field(body[CHOOSE q \in Reqs : pc[q] # "new" /\ \A p \in Reqs : pc[p] # "new" => p <= q], "id")

\* the id the callbacks of request r reply with: the `id` bound in the
\* invocation of the route handler that created them
closureId(r) == Field(body[r], "id")

\* the route handler for request r with body b, run to the end of its turn,
\* the promise reactions of an already settled promise included
Post(r, b, completion) ==
  /\ alive
  /\ pc[r] = "new"
  /\ \A q \in Reqs : q < r => pc[q] # "new"
  /\ body' = [body EXCEPT ![r] = b]
  /\ LET jsonrpc == Field(b, "jsonrpc")
         method == Field(b, "method")
         params == Field(b, "params")
         id == Field(b, "id")
         handler == lookupMethod(methods, PropertyKey(method))
         done == invoke(handler, completion)
         finish(eff) ==
           /\ sent' = [sent EXCEPT ![r] = sent[r] \o eff.sent]
           /\ escaped' = [escaped EXCEPT ![r] = escaped[r] \o eff.escaped]
           /\ alive' \in survives(eff.escaped)
           /\ pc' = [pc EXCEPT ![r] = "done"]
     IN  IF invalidMessage(jsonrpc, method) # <<>>
         THEN /\ finish(Effect(<<reply(id, Undef,
                    Obj(<<<<"code", Num(0 - 32600)>>,
                          <<"message", Str(invalidMessage(jsonrpc, method))>>>>))>>, <<>>))
              /\ UNCHANGED <<invoked, outcome>>
         ELSE IF ~Truthy(handler)
         THEN /\ finish(Effect(<<reply(id, Undef,
                    Obj(<<<<"code", Num(0 - 32601)>>,
                          <<"message", Str(<<"Method \"">> \o PropertyKey(method) \o <<"\" not found">>)>>>>))>>,
                    <<>>))
              /\ UNCHANGED <<invoked, outcome>>
         ELSE /\ invoked' = [invoked EXCEPT ![r] = [fn |-> handler, params |-> params, context |-> Context]]
              /\ CASE done.mode = "return" ->
                        /\ finish(thenCallback(done.v, id))
                        /\ outcome' = [outcome EXCEPT ![r] = done]
                   [] done.mode = "throw" ->
                        /\ finish(catchBlock(done.v, id))
                        /\ outcome' = [outcome EXCEPT ![r] = done]
                   [] done.mode = "promise" ->
                        /\ pc' = [pc EXCEPT ![r] = "pending"]
                        /\ UNCHANGED <<outcome, sent, escaped, alive>>
                   [] done.mode = "stall" ->
                        /\ pc' = [pc EXCEPT ![r] = "stalled"]
                        /\ UNCHANGED <<outcome, sent, escaped, alive>>
  /\ UNCHANGED <<methods, registered>>
  /\ UNCHANGED codecVars

\* the promise a handler returned settles: the reactions of the route run
Settle(r, completion) ==
  /\ alive
  /\ pc[r] = "pending"
  /\ LET id == closureId(r)
         eff == IF completion.mode = "resolve" THEN thenCallback(completion.v, id)
                ELSE catchCallback(completion.v, id)
     IN  /\ sent' = [sent EXCEPT ![r] = sent[r] \o eff.sent]
         /\ escaped' = [escaped EXCEPT ![r] = escaped[r] \o eff.escaped]
         /\ alive' \in survives(eff.escaped)
  /\ pc' = [pc EXCEPT ![r] = "done"]
  /\ outcome' = [outcome EXCEPT ![r] = completion]
  /\ UNCHANGED <<methods, body, invoked, registered>>
  /\ UNCHANGED codecVars

----------------------------------------------------------------------------
(* Inputs *)

\* 123456789012345678901234567890n
BigSample ==
  Big(FALSE, <<"1", "2", "3", "4", "5", "6", "7", "8", "9", "0", "1", "2", "3", "4", "5",
               "6", "7", "8", "9", "0", "1", "2", "3", "4", "5", "6", "7", "8", "9", "0">>)

\* names given to addMethod; "123" is the textual form of the number 123
MethodNames == { <<"add">>, <<"1", "2", "3">> }

Handlers == { Fn(f) : f \in UserFns }

\* a parsed request body with the given fields, a field left out when undefined
Request(jsonrpc, method, params, id) ==
  Obj(SelectSeq(<<<<"jsonrpc", jsonrpc>>, <<"method", method>>, <<"params", params>>, <<"id", id>>>>,
                LAMBDA e : e[2] # Undef))

V2 == Str(<<"2", ".", "0">>)

AddParams == Obj(<<<<"a", Num(2)>>, <<"b", Num(3)>>>>)

JsonrpcValues == { Undef, V2, Str(<<"1", ".", "0">>), Num(2) }

MethodValues ==
  { Undef, Null, Num(123), Arr(<<Str(<<"add">>)>>), Obj(<<<<"name", Str(<<"add">>)>>>>),
    Str(<<"add">>), Str(<<"1", "2", "3">>), Str(<<"noSuchMethod">>),
    Str(<<"toString">>), Str(<<"constructor">>), Str(<<"__proto__">>), Str(<<"hasOwnProperty">>) }

IdValues == { Undef, Null, Num(1), Str(<<"x">>) }

\* req.body: request objects, and what is no object (absent, a string, a batch)
Bodies ==
  { Request(j, m, AddParams, i) : j \in JsonrpcValues, m \in MethodValues, i \in IdValues }
    \cup { Undef, Str(<<"hello">>), Arr(<<Request(V2, Str(<<"add">>), AddParams, Num(1))>>) }

\* an Error as a system call raises it
SystemError ==
  Err(<<<<"message", Str(<<"ENOENT: no such file or directory, open '/etc/app/secret.json'">>)>>,
        <<"stack", Str(<<"Error: ENOENT at <anonymous>">>)>>,
        <<"errno", Num(0 - 2)>>, <<"code", Str(<<"ENOENT">>)>>, <<"syscall", Str(<<"open">>)>>,
        <<"path", Str(<<"/etc/app/secret.json">>)>>>>)

ConnectError ==
  Err(<<<<"message", Str(<<"connect ECONNREFUSED">>)>>,
        <<"stack", Str(<<"Error: connect ECONNREFUSED at <anonymous>">>)>>,
        <<"code", Str(<<"ECONNREFUSED">>)>>, <<"address", Str(<<"10.0.0.7">>)>>, <<"port", Num(5432)>>>>)

CodedError ==
  Err(<<<<"message", Str(<<"bad">>)>>, <<"stack", Str(<<"Error: bad at <anonymous>">>)>>,
        <<"code", Num(400)>>>>)

\* { message: "quota exceeded", limit: 10n }
QuotaFailure ==
  Obj(<<<<"message", Str(<<"quota exceeded">>)>>, <<"limit", Big(FALSE, <<"1", "0">>)>>>>)

\* new Error("save failed", { cause: new Error("disk full") })
CausedError ==
  Err(<<<<"message", Str(<<"save failed">>)>>, <<"stack", Str(<<"Error: save failed at <anonymous>">>)>>,
        <<"cause", ErrorValue("disk full")>>>>)

\* { type: "ValidationError", message: "name is required" }
TypedFailure ==
  Obj(<<<<"type", Str(<<"ValidationError">>)>>, <<"message", Str(<<"name is required">>)>>>>)

\* what a handler can throw or reject with
Failures ==
  { Null, Undef, Str(<<"boom">>), Num(42), Bool(FALSE),
    ErrorValue("Division by zero"), CodedError, SystemError, ConnectError,
    Err(<<<<"stack", Str(<<"Error at <anonymous>">>)>>>>),
    NestedErr(<<<<"message", Str(<<"outer">>)>>, <<"stack", Str(<<"NestedError: outer at <anonymous>">>)>>,
                <<"nested", SystemError>>>>),
    NestedErr(<<<<"message", Str(<<"outer">>)>>, <<"stack", Str(<<"NestedError: outer at <anonymous>">>)>>,
                <<"nested", NestedErr(<<<<"message", Str(<<"middle">>)>>,
                                        <<"stack", Str(<<"NestedError: middle at <anonymous>">>)>>,
                                        <<"code", Num(7)>>, <<"nested", ConnectError>>>>)>>>>),
    NestedErr(<<<<"message", Str(<<"alone">>)>>, <<"stack", Str(<<"NestedError: alone at <anonymous>">>)>>>>),
    Obj(<<<<"message", Str(<<"bad">>)>>, <<"code", Num(400)>>>>),
    Obj(<<<<"code", Num(0)>>>>),
    Obj(<<<<"message", Str(<<"denied">>)>>, <<"path", Str(<<"/srv/data">>)>>, <<"address", Str(<<"10.0.0.7">>)>>>>),
    Obj(<<>>), QuotaFailure, CausedError, TypedFailure }

\* what a handler can return or resolve with
Results ==
  { Undef, Null, Num(0), Num(5), Bool(FALSE), Str(<<>>), Str(<<"ok">>),
    Big(FALSE, <<"4", "2">>), Big(TRUE, <<"5">>), DateOf(19724, 45296789),
    Arr(<<BigSample, Undef>>), Obj(<<<<"n", Big(FALSE, <<"0">>)>>, <<"at", DateOf(0, 0)>>>>),
    ReqArtifact }

\* the completion of a handler call: a value, a throw, a promise that settles
\* later, a promise that never settles
Completions ==
  { [mode |-> "return", v |-> x] : x \in Results }
    \cup { [mode |-> "throw", v |-> x] : x \in Failures }
    \cup { [mode |-> "promise", v |-> Undef], [mode |-> "stall", v |-> Undef] }

Settlements ==
  { [mode |-> "resolve", v |-> x] : x \in Results }
    \cup { [mode |-> "reject", v |-> x] : x \in Failures }

----------------------------------------------------------------------------
(* One request, over every body and every completion *)

RequestInit == EndpointInit /\ CodecIdle

Register == \E name \in MethodNames, handler \in Handlers : addMethod(name, handler)

Receive == \E b \in Bodies, c \in Completions : Post(1, b, c)

Complete == \E c \in Settlements : Settle(1, c)

RequestNext == Register \/ Receive \/ Complete

RequestSpec == RequestInit /\ [][RequestNext]_vars

----------------------------------------------------------------------------
(* Requests in flight together, over a few bodies and completions *)

SomeBodies ==
  { Request(V2, Str(<<"add">>), AddParams, Num(1)),
    Request(V2, Str(<<"add">>), Obj(<<<<"a", Num(7)>>>>), Str(<<"x">>)),
    Request(V2, Str(<<"noSuchMethod">>), AddParams, Num(1)),
    Request(Num(2), Str(<<"add">>), AddParams, Str(<<"x">>)) }

SomeCompletions ==
  { [mode |-> "return", v |-> Num(5)], [mode |-> "throw", v |-> CodedError],
    [mode |-> "promise", v |-> Undef], [mode |-> "stall", v |-> Undef] }

SomeSettlements ==
  { [mode |-> "resolve", v |-> Num(5)], [mode |-> "resolve", v |-> Str(<<"ok">>)],
    [mode |-> "reject", v |-> CodedError], [mode |-> "reject", v |-> Null] }

Init == EndpointInit /\ CodecIdle

RegisterAdd == \E handler \in Handlers : addMethod(<<"add">>, handler)

Arrive(r) == \E b \in SomeBodies, c \in SomeCompletions : Post(r, b, c)

Finish(r) == \E c \in SomeSettlements : Settle(r, c)

Next == RegisterAdd \/ \E r \in Reqs : Arrive(r) \/ Finish(r)

Spec == Init /\ [][Next]_vars

\* a promise that is going to settle does settle
FairSpec == Spec /\ \A r \in Reqs : WF_vars(Finish(r))

----------------------------------------------------------------------------
(* The codec on its own: encode a value, then decode what was encoded *)

MaxDepth == 2

\* scalars a handler, or a caller of the codec, can hold in memory
CodecLeaves ==
  { Null, Bool(TRUE), Bool(FALSE), Num(0), Num(5),
    Str(<<>>), Str(<<"hello world">>), Str(<<"4", "2">>), Str(<<"1", "2", "a">>),
    Str(<<"4", "2", "n">>), Str(<<"0", "0", "7">>), Str(<<"-", "5">>), Str(<<"n">>),
    Str(<<"2", "0", "2", "3", "-", "1", "3", "-", "0", "1", "T", "0", "0", ":", "0", "0", ":", "0", "0", "Z">>),
    Str(<<"2", "0", "2", "4", "-", "0", "1", "-", "0", "2", "T", "0", "3", ":", "0", "4", ":", "0", "5", "Z">>),
    Big(FALSE, <<"0">>), Big(FALSE, <<"4", "2">>), Big(TRUE, <<"5">>), BigSample,
    DateOf(0, 0), DateOf(19724, 45296789), DateOf(0 - 1, 86399999), DateOf(2932897, 0) }

\* second elements of two-element containers
CodecTails == { Num(5), Big(FALSE, <<"4", "2">>) }

RECURSIVE CodecValues(_)
\* JSON-like values nested to depth d
CodecValues(d) ==
  IF d = 0 THEN CodecLeaves
  ELSE LET S == CodecValues(d - 1)
       IN  S \cup { Arr(<<x>>) : x \in S }
             \cup { Arr(<<x, y>>) : x \in S, y \in CodecTails }
             \cup { Arr(<<y, x>>) : x \in S, y \in CodecTails }
             \cup { Obj(<<<<"a", x>>>>) : x \in S }
             \cup { Obj(<<<<"a", x>>, <<"b", y>>>>) : x \in S, y \in CodecTails }

CodecInit ==
  /\ EndpointInit
  /\ cin \in CodecValues(MaxDepth)
  /\ cenc = Undef
  /\ cdec = Undef
  /\ cagain = Undef
  /\ cpc = "init"

\* wire = serializeBigIntsAndDates(v)
Encode ==
  /\ cpc = "init"
  /\ cenc' = serializeBigIntsAndDates(cin)
  /\ cpc' = "encoded"
  /\ UNCHANGED <<cin, cdec, cagain>>
  /\ UNCHANGED epVars

\* back = deserializeBigIntsAndDates(wire)
Decode ==
  /\ cpc = "encoded"
  /\ cdec' = deserializeBigIntsAndDates(cenc)
  /\ cpc' = "decoded"
  /\ UNCHANGED <<cin, cenc, cagain>>
  /\ UNCHANGED epVars

\* again = deserializeBigIntsAndDates(back): the decoder given a value that
\* is already decoded
Redecode ==
  /\ cpc = "decoded"
  /\ cagain' = deserializeBigIntsAndDates(cdec)
  /\ cpc' = "redecoded"
  /\ UNCHANGED <<cin, cenc, cdec>>
  /\ UNCHANGED epVars

CodecNext == Encode \/ Decode \/ Redecode

CodecSpec == CodecInit /\ [][CodecNext]_vars

----------------------------------------------------------------------------
(* Properties *)

\* the id a response to body b must carry
ResponseId(b) == IF Field(b, "id") = Undef THEN Null ELSE Field(b, "id")

\* the error envelope with the given id, code and message and nothing else
ErrorEnvelope(id, code, message) ==
  Obj(<<<<"jsonrpc", Str(<<"2", ".", "0">>)>>, <<"id", id>>,
        <<"error", Obj(<<<<"code", Num(code)>>, <<"message", Str(message)>>>>)>>>>)

Answered(r) == pc[r] = "done"

Succeeded(r) == outcome[r].mode \in {"return", "resolve"}

Failed(r) == outcome[r].mode \in {"throw", "reject"}

\* C1: a request with jsonrpc "2.0" for a registered method whose handler
\* completes with a value (any value, undefined included) is answered by one
\* envelope that holds exactly one of result / error and the request's id, null
\* when the request had none.  (The claim also covers the handlers that fail;
\* those are C4's.)
C1_ExactlyOneOfResultError ==
  \A r \in Reqs :
    Answered(r) /\ invoked[r].fn \in Handlers /\ Succeeded(r) =>
      /\ Len(sent[r]) = 1
      /\ HasKey(sent[r][1].kv, "result") # HasKey(sent[r][1].kv, "error")
      /\ Get(sent[r][1], "id") = ResponseId(body[r])

HasNumericCode(f) == ~Nullish(f) /\ Get(f, "code").t = "number" /\ Get(f, "code").n # 0

\* C2: a failure that carries a numeric code yields an error envelope with that
\* code and the failure's message (else "Internal error"), whether the handler
\* threw it during the call or rejected with it later.  (The claim, on the
\* failures whose code is a non-zero number.)
C2_SameErrorEnvelope ==
  \A r \in Reqs :
    Answered(r) /\ invoked[r].fn \in Handlers /\ Failed(r) /\ HasNumericCode(outcome[r].v) =>
      /\ Len(sent[r]) = 1
      /\ HasKey(sent[r][1].kv, "error")
      /\ Get(Get(sent[r][1], "error"), "code") = Get(outcome[r].v, "code")
      /\ Get(Get(sent[r][1], "error"), "message")
           = Or(Get(outcome[r].v, "message"), Str(<<"Internal error">>))

\* C3: a request with jsonrpc "2.0" naming a method that was never registered
\* invokes no handler and is answered by the error envelope -32601,
\* Method "<name>" not found, with the request's id.
C3_UnknownMethod ==
  \A r \in Reqs :
    /\ Answered(r)
    /\ Field(body[r], "jsonrpc") = Str(<<"2", ".", "0">>)
    /\ Field(body[r], "method").t = "string"
    /\ Field(body[r], "method").s \notin DOMAIN methods
    => /\ invoked[r] = NoCall
       /\ sent[r] = <<ErrorEnvelope(ResponseId(body[r]), 0 - 32601,
                        <<"Method \"">> \o Field(body[r], "method").s \o <<"\" not found">>)>>

\* C4: nothing a handler throws or rejects with leaves the core, and every
\* failed invocation is answered by exactly one error envelope.
C4_OneErrorEnvelopeNoEscape ==
  \A r \in Reqs :
    /\ escaped[r] = <<>>
    /\ Answered(r) /\ Failed(r) =>
         Len(sent[r]) = 1 /\ HasKey(sent[r][1].kv, "error")

RECURSIVE NoStrings(_)
NoStrings(v) ==
  CASE v.t = "string" -> FALSE
    [] v.t = "array" -> \A i \in 1..Len(v.es) : NoStrings(v.es[i])
    [] v.t = "object" -> \A i \in 1..Len(v.kv) : NoStrings(v.kv[i][2])
    [] OTHER -> TRUE

\* C5: decoding the encoding of a value gives the value back.  (The claim, on
\* the values that hold no string: null, booleans, numbers, integers of either
\* sign and dates, in arrays and keyed mappings.)
C5_RoundTrip == cpc = "decoded" /\ NoStrings(cin) => cdec = cin

\* C6: a request whose jsonrpc is not the string "2.0" invokes no handler and
\* is answered by the error envelope -32600, Invalid Request: 'jsonrpc' must be
\* '2.0'., whatever its method, params and id and whatever is registered.
C6_InvalidVersion ==
  \A r \in Reqs :
    Answered(r) /\ Field(body[r], "jsonrpc") # Str(<<"2", ".", "0">>) =>
      /\ invoked[r] = NoCall
      /\ escaped[r] = <<>>
      /\ sent[r] = <<ErrorEnvelope(ResponseId(body[r]), 0 - 32600,
                       <<"Invalid Request: 'jsonrpc' must be '2.0'.">>)>>

\* C6 witness: a request that fails both rules, its method's textual form registered
C6_Witness ==
  /\ Answered(1)
  /\ Field(body[1], "jsonrpc") = Num(2)
  /\ Field(body[1], "method") = Num(123)
  /\ <<"1", "2", "3">> \in DOMAIN methods
  /\ Len(sent[1]) = 1

\* C7: a request with jsonrpc "2.0" whose method is not a string invokes no
\* handler, also when the textual form of the method is registered, and is
\* answered by the error envelope -32600, Invalid Request: 'method' must be a
\* string.
C7_InvalidMethod ==
  \A r \in Reqs :
    /\ Answered(r)
    /\ Field(body[r], "jsonrpc") = Str(<<"2", ".", "0">>)
    /\ Field(body[r], "method").t # "string"
    => /\ invoked[r] = NoCall
       /\ escaped[r] = <<>>
       /\ sent[r] = <<ErrorEnvelope(ResponseId(body[r]), 0 - 32600,
                        <<"Invalid Request: 'method' must be a string.">>)>>

\* C7 witness: method is the number 123 while "123" is registered
C7_Witness ==
  /\ Answered(1)
  /\ Field(body[1], "jsonrpc") = Str(<<"2", ".", "0">>)
  /\ Field(body[1], "method") = Num(123)
  /\ <<"1", "2", "3">> \in DOMAIN methods
  /\ Len(sent[1]) = 1

RECURSIVE NoLocation(_)
\* a snapshot without path and address, at its top and in its nested records
NoLocation(rec) ==
  rec.t = "object" =>
    /\ ~HasKey(rec.kv, "path")
    /\ ~HasKey(rec.kv, "address")
    /\ HasKey(rec.kv, "nested") => NoLocation(Lookup(rec.kv, "nested"))

\* C8: the error snapshot of an error envelope holds no path and no address,
\* at its top level and in every nested record.
C8_NoLocationFields ==
  \A r \in Reqs : \A i \in 1..Len(sent[r]) :
    HasKey(sent[r][i].kv, "error") /\ HasKey(Get(sent[r][i], "error").kv, "error") =>
      NoLocation(Get(Get(sent[r][i], "error"), "error"))

\* C9: with requests in flight together and completing in any order, a request
\* gets at most one response, and that response carries the request's own id
\* and the outcome of its own invocation, which received its own params.
C9_OwnResponse ==
  \A r \in Reqs :
    /\ Len(sent[r]) <= 1
    /\ invoked[r] # NoCall => invoked[r].params = Field(body[r], "params")
    /\ Len(sent[r]) = 1 =>
         /\ Answered(r)
         /\ Get(sent[r][1], "id") = ResponseId(body[r])
         /\ invoked[r] = NoCall => HasKey(sent[r][1].kv, "error")
         /\ invoked[r] # NoCall /\ Succeeded(r) => Get(sent[r][1], "result") = outcome[r].v
         /\ invoked[r] # NoCall /\ Failed(r) =>
              Get(Get(sent[r][1], "error"), "message") = Get(outcome[r].v, "message")

\* C9 witness: the second request is answered, from its own promise, while the
\* first, with another id, is still in flight
C9_Witness ==
  /\ pc[1] = "pending"
  /\ Answered(2) /\ outcome[2].mode = "resolve"
  /\ Len(sent[2]) = 1
  /\ ResponseId(body[1]) # ResponseId(body[2])

\* C10: a request whose handler has completed, by returning, throwing or
\* settling its promise, has its response.
C10_CompletedIsAnswered ==
  \A r \in Reqs : Answered(r) => Len(sent[r]) >= 1

\* the keys of the error record of an error envelope
ErrorKeys(w) == { Get(w, "error").kv[i][1] : i \in 1..Len(Get(w, "error").kv) }

\* C11: the error record of the envelope of a handler failure is
\* {code, message, data}, the snapshot under data and no other key; the record
\* of an invalid request or of an unknown method is {code, message}.
C11_ErrorRecordShape ==
  \A r \in Reqs :
    Answered(r) /\ Len(sent[r]) = 1 /\ HasKey(sent[r][1].kv, "error") =>
      IF invoked[r] # NoCall /\ Failed(r)
      THEN ErrorKeys(sent[r][1]) = {"code", "message", "data"}
      ELSE invoked[r] = NoCall => ErrorKeys(sent[r][1]) = {"code", "message"}

\* C12: the code of every error envelope is a number: -32600, -32601, the
\* failure's own code when that is a number (0 included; on the rejection
\* path, the synchronous one being C2's), else -32603 (a string such as
\* "ENOENT" yields -32603).
C12_NumericCode ==
  \A r \in Reqs : \A i \in 1..Len(sent[r]) :
    HasKey(sent[r][i].kv, "error") =>
      /\ Get(Get(sent[r][i], "error"), "code").t = "number"
      /\ invoked[r] = NoCall => Get(Get(sent[r][i], "error"), "code").n \in {0 - 32600, 0 - 32601}
      /\ invoked[r] # NoCall /\ Failed(r) /\ ~HasNumericCode(outcome[r].v)
           /\ Get(outcome[r].v, "code") # Num(0) =>
           Get(Get(sent[r][i], "error"), "code") = Num(0 - 32603)
      /\ invoked[r] # NoCall /\ outcome[r].mode = "reject" /\ ~Nullish(outcome[r].v)
           /\ Get(outcome[r].v, "code").t = "number" =>
           Get(Get(sent[r][i], "error"), "code") = Get(outcome[r].v, "code")

\* the registry key a request names
RequestedName(b) == PropertyKey(Field(b, "method"))

C14_FrameAndNextRequest ==
  /\ methods = registered
  /\ \A r \in Reqs : invoked[r] # NoCall => invoked[r].context = Context
  /\ (\E r \in Reqs : Failed(r)) => alive

RECURSIVE Wireable(_)
\* a value JSON carries whole: nothing undefined, no function, no cycle inside
Wireable(v) ==
  CASE v.t \in {"undefined", "function", "cyclic"} -> FALSE
    [] v.t = "array" -> \A i \in 1..Len(v.es) : Wireable(v.es[i])
    [] v.t = "object" -> \A i \in 1..Len(v.kv) : Wireable(v.kv[i][2])
    [] OTHER -> TRUE

RECURSIVE NoBigIntNoDate(_)
NoBigIntNoDate(v) ==
  CASE v.t \in {"bigint", "date"} -> FALSE
    [] v.t = "array" -> \A i \in 1..Len(v.es) : NoBigIntNoDate(v.es[i])
    [] v.t = "object" -> \A i \in 1..Len(v.kv) : NoBigIntNoDate(v.kv[i][2])
    [] OTHER -> TRUE

RECURSIVE EncodedAs(_, _)
\* w is v with every integer replaced by its decimal digits, every date by a
\* UTC ISO-8601 string ending in Z that denotes it, and nothing else changed
EncodedAs(v, w) ==
  CASE v.t = "bigint" -> w = Str((IF v.neg THEN <<"-">> ELSE <<>>) \o v.mag)
    [] v.t = "date" ->
         /\ w.t = "string" /\ w.s # <<>> /\ w.s[Len(w.s)] = "Z"
         /\ IsoPattern(w.s) /\ IsoValid(w.s) /\ ParseIso(w.s) = v
    [] v.t = "array" ->
         /\ w.t = "array" /\ Len(w.es) = Len(v.es)
         /\ \A i \in 1..Len(v.es) : EncodedAs(v.es[i], w.es[i])
    [] v.t = "object" ->
         /\ w.t = "object" /\ Len(w.kv) = Len(v.kv)
         /\ \A i \in 1..Len(v.kv) : w.kv[i][1] = v.kv[i][1] /\ EncodedAs(v.kv[i][2], w.kv[i][2])
    [] OTHER -> w = v

\* C15: the result of a success envelope is serializeBigIntsAndDates of the
\* handler's value: every integer inside is its decimal digit string, every
\* date its UTC ISO string ending in Z, no integer or date is left at any
\* depth, and a value holding neither (0, false, "" and null among them) is
\* the result as it is.  (On the values JSON carries whole.)
C15_ResultIsEncodedValue ==
  \A r \in Reqs :
    /\ \A i \in 1..Len(sent[r]) :
         HasKey(sent[r][i].kv, "result") => NoBigIntNoDate(Get(sent[r][i], "result"))
    /\ Answered(r) /\ invoked[r].fn \in Handlers /\ Succeeded(r) /\ Wireable(outcome[r].v) =>
         /\ Len(sent[r]) = 1
         /\ HasKey(sent[r][1].kv, "result") /\ ~HasKey(sent[r][1].kv, "error")
         /\ Get(sent[r][1], "result") = serializeBigIntsAndDates(outcome[r].v)
         /\ EncodedAs(outcome[r].v, Get(sent[r][1], "result"))
         /\ NoBigIntNoDate(outcome[r].v) => Get(sent[r][1], "result") = outcome[r].v

\* a handler resolved with {n: 0n, at: <the epoch>} and was answered
C15_Witness ==
  \E r \in Reqs :
    /\ Answered(r) /\ outcome[r].mode = "resolve" /\ Len(sent[r]) = 1
    /\ outcome[r].v = Obj(<<<<"n", Big(FALSE, <<"0">>)>>, <<"at", DateOf(0, 0)>>>>)
    /\ Get(Get(sent[r][1], "result"), "n") = Str(<<"0">>)

RECURSIVE JsonSafe(_)
\* only JSON-representable values at every depth: no BigInt, no error object,
\* no function, nothing undefined and no way back into the value graph
JsonSafe(v) ==
  CASE v.t \in {"null", "boolean", "number", "string"} -> TRUE
    [] v.t = "array" -> \A i \in 1..Len(v.es) : JsonSafe(v.es[i])
    [] v.t = "object" -> \A i \in 1..Len(v.kv) : JsonSafe(v.kv[i][2])
    [] OTHER -> FALSE

\* C16: the record serializeError returns for a failure built without cycles
\* holds only JSON-representable values at every depth, also when the failure
\* has a cause or is a plain object with fields of its own, and the error
\* envelope that carries it is sent.
C16_NormalizedIsJsonSafe ==
  \A r \in Reqs :
    Answered(r) /\ invoked[r].fn \in Handlers /\ Failed(r)
      /\ outcome[r].v.t \in {"error", "nestederror", "object"} =>
        /\ JsonSafe(serializeError(outcome[r].v, TRUE))
        /\ Len(sent[r]) = 1 /\ HasKey(sent[r][1].kv, "error")

\* the type tag the kind of a failure value calls for
TagOfKind(v) ==
  CASE v.t = "nestederror" -> "NestedError"
    [] v.t = "error" -> "Error"
    [] v.t \in {"object", "date", "function", "array"} -> "Object"
    [] OTHER -> "Default"

\* C19: the type tag of the normalized record follows from the kind of the
\* failure alone: "NestedError" with the predecessor normalized under nested,
\* "Error", "Object" with the own fields merged in and the tag kept, "Default"
\* with instance = the value for anything else, null and primitives included.
C19_TypeTagByKind ==
  \A r \in Reqs :
    invoked[r].fn \in Handlers /\ Failed(r) =>
      LET v == outcome[r].v
          rec == serializeError(v, TRUE)
      IN  /\ rec.t = "object"
          /\ Get(rec, "type") = Str(<<TagOfKind(v)>>)
          /\ v.t = "nestederror" /\ Truthy(Get(v, "nested"))
               => Get(rec, "nested") = serializeError(Get(v, "nested"), TRUE)
          /\ v.t = "object" =>
               \A i \in 1..Len(v.kv) : v.kv[i][1] # "type" => Get(rec, v.kv[i][1]) = v.kv[i][2]
          /\ TagOfKind(v) = "Default" => Get(rec, "instance") = v

\* a value the decoder has no rule for: a number, a boolean, null, a string
\* that is no digit string and no ISO string of a valid instant, a BigInt or
\* a Date that is already decoded
PassesThrough(v) ==
  \/ v.t \in {"number", "boolean", "null", "bigint", "date"}
  \/ v.t = "string" /\ ~BigIntPattern(v.s) /\ ~(IsoPattern(v.s) /\ IsoValid(v.s))

\* C17: deserializeBigIntsAndDates returns every value it has no rule for as
\* it is, decoded BigInts and Dates included, and so decoding what is
\* already decoded changes nothing: decode(decode(v)) = decode(v).
C17_DecodeIdempotent ==
  /\ cpc \in {"decoded", "redecoded"} /\ PassesThrough(cenc) => cdec = cenc
  /\ cpc = "redecoded" => cagain = cdec

\* the decimal digits d, leading zeros allowed, denote the magnitude mag
SameDecimal(d, mag) ==
  /\ mag # <<>> /\ Len(mag) <= Len(d)
  /\ Len(mag) = 1 \/ mag[1] # "0"
  /\ \A i \in 1..Len(d) :
       IF i <= Len(d) - Len(mag) THEN d[i] = "0" ELSE d[i] = mag[i - (Len(d) - Len(mag))]

\* d or d followed by "n", d a non-empty string of decimal digits
DigitsOf(s) == IF s # <<>> /\ s[Len(s)] = "n" THEN SubSeq(s, 1, Len(s) - 1) ELSE s

IsDigitString(s) == DigitsOf(s) # <<>> /\ \A i \in 1..Len(DigitsOf(s)) : DigitsOf(s)[i] \in Digits

RECURSIVE DecodesDigits(_, _)
\* wherever w holds a digit string, with or without the trailing n, b holds
\* the non-negative integer with exactly that decimal value
DecodesDigits(w, b) ==
  CASE w.t = "string" /\ IsDigitString(w.s) ->
         /\ b.t = "bigint" /\ ~b.neg /\ SameDecimal(DigitsOf(w.s), b.mag)
         /\ deserializeBigIntsAndDates(Str(DigitsOf(w.s))) = b
         /\ deserializeBigIntsAndDates(Str(DigitsOf(w.s) \o <<"n">>)) = b
         /\ ~IsoPattern(w.s)
    [] w.t = "string" /\ ~IsDigitString(w.s) -> b.t # "bigint"
    [] w.t = "array" ->
         /\ b.t = "array" /\ Len(b.es) = Len(w.es)
         /\ \A i \in 1..Len(w.es) : DecodesDigits(w.es[i], b.es[i])
    [] w.t = "object" ->
         /\ b.t = "object" /\ Len(b.kv) = Len(w.kv)
         /\ \A i \in 1..Len(w.kv) : DecodesDigits(w.kv[i][2], b.kv[i][2])
    [] OTHER -> TRUE

\* C18: at the top level and at any depth, a non-empty string of decimal
\* digits d and the string d followed by "n" decode to the same integer, the
\* one whose decimal value is d, digit for digit; no such string is an ISO
\* date string, and no other string decodes to an integer.
C18_DigitStringsDecodeExactly ==
  cpc \in {"decoded", "redecoded"} => DecodesDigits(cenc, cdec)

\* ["42n", 42n] was encoded as ["42n", "42"] and decoded as [42n, 42n]
C18_Witness ==
  /\ cpc = "decoded"
  /\ cenc = Arr(<<Str(<<"4", "2", "n">>), Str(<<"4", "2">>)>>)
  /\ cdec = Arr(<<Big(FALSE, <<"4", "2">>), Big(FALSE, <<"4", "2">>)>>)

====
